---- MODULE Spec2Model ----
(***************************************************************************)
(* Model of ibkr_tv_bot.py: the Telegram configuration conversation that   *)
(* fills the in-memory `configs` dict, and the Flask /webhook endpoint     *)
(* whose handle_buy / handle_sell turn a signal plus broker-reported       *)
(* account state into a limit order or nothing.                            *)
(*                                                                         *)
(* Numbers.  Every decimal is held in fixed point as twice its value       *)
(* ("halves"): 2.5 is 5, 1000 is 2000.  Broker quotes and position prices  *)
(* are drawn from whole numbers, so the midpoint (ask + bid) / 2 is exact  *)
(* in halves.  Values read by float() from user text are records, because  *)
(* float() also produces nan and inf.  Share counts are plain integers.    *)
(***************************************************************************)
EXTENDS Integers, Sequences, FiniteSets, TLC

VARIABLES configs, conv, user_data, reply, chats, pool, pc, frame, calls, exc, resp

vars == <<configs, conv, user_data, reply, chats, pool, pc, frame, calls, exc, resp>>

\* ------------------------------------------------------------------ floats
H(x) == 2 * x

Fin(n) == [k |-> "fin", v |-> n]

NaN == [k |-> "nan", v |-> 0]

Inf == [k |-> "inf", v |-> 0]

None == [none |-> TRUE]

Abs(a) == IF a < 0 THEN -a ELSE a

\* int(a / b) for finite a, b # 0: Python's int() truncates toward zero.
TruncDiv(a, b) ==
    IF (a >= 0) = (b > 0) THEN Abs(a) \div Abs(b) ELSE -(Abs(a) \div Abs(b))

\* a < f for a finite a (in halves) and a float f; any comparison with nan is False.
FinLess(a, f) ==
    CASE f.k = "nan" -> FALSE
      [] f.k = "inf" -> TRUE
      [] OTHER -> a < f.v

\* ------------------------------------------------------- text conversions
\* str.upper() on the strings the webhook and the broker can deliver.
Upper(s) ==
    CASE s = "aapl" -> "AAPL"
      [] s = "buy" -> "BUY"
      [] s = "Sell" -> "SELL"
      [] s = "hold" -> "HOLD"
      [] OTHER -> s

\* str.strip() on the texts a Telegram user can send.
Strip(s) ==
    CASE s = " aapl " -> "aapl"
      [] s = " -2.5 " -> "-2.5"
      [] OTHER -> s

\* Mutant of ParseFloat: text that is no number is read as 0 instead of raising.
ParseFloatLenient(s) ==
    CASE s = "1000" -> Fin(H(1000))
      [] s = "100" -> Fin(H(100))
      [] s = "-2.5" -> Fin(-5)
      [] s = "2.5" -> Fin(5)
      [] s = "3" -> Fin(H(3))
      [] s = "nan" -> NaN
      [] s = "inf" -> Inf
      [] OTHER -> Fin(0)

\* float(s): the parsed value, or None where float() raises ValueError.
ParseFloat(s) ==
    CASE s = "1000" -> Fin(H(1000))
      [] s = "100" -> Fin(H(100))
      [] s = "-2.5" -> Fin(-5)
      [] s = "0" -> Fin(0)
      [] s = "2.5" -> Fin(5)
      [] s = "3" -> Fin(H(3))
      [] s = "nan" -> NaN
      [] s = "inf" -> Inf
      [] OTHER -> None

\* ------------------------------------------------------------ input sets
TickerTexts == {" aapl ", "MSFT"}

SizeTexts == {"1000", " -2.5 ", "nan", "abc"}

ProfitTexts == {"2.5", "3", "abc"}

RawTickers == {"aapl", "MSFT"}

RawActions == {"buy", "Sell", "hold"}

Workers == {1, 2}

\* ib.accountValues(): lists of (tag, currency, value).
AccountValueLists ==
    { << [tag |-> "AvailableFunds", currency |-> "EUR", value |-> H(5000)],
         [tag |-> "NetLiquidation", currency |-> "USD", value |-> H(5000)] >>,
      << [tag |-> "AvailableFunds", currency |-> "EUR", value |-> H(5000)],
         [tag |-> "AvailableFunds", currency |-> "USD", value |-> H(1000)] >>,
      << [tag |-> "AvailableFunds", currency |-> "USD", value |-> H(500)] >> }

\* ib.reqMktData(): the ticker's last, bid and ask after the one-second wait.
Quotes ==
    { [last |-> H(0), bid |-> H(10), ask |-> H(12)],
      [last |-> H(15), bid |-> H(10), ask |-> H(12)],
      [last |-> H(333), bid |-> H(332), ask |-> H(334)],
      [last |-> H(1500), bid |-> H(1499), ask |-> H(1501)],
      [last |-> H(0), bid |-> H(10), ask |-> H(11)],
      [last |-> H(0), bid |-> H(0), ask |-> H(0)],
      [last |-> H(0), bid |-> H(-1), ask |-> H(-1)] }

Pos(sym, n, cost, price) ==
    [symbol |-> sym, position |-> n, averageCost |-> cost, marketPrice |-> price]

\* ib.positions(): lists of open positions.
PositionLists ==
    { << >>,
      << Pos("MSFT", 4, H(50), H(51)) >>,
      << Pos("AAPL", 0, H(90), H(103)), Pos("AAPL", 10, H(100), H(103)) >>,
      << Pos("AAPL", -5, H(100), H(103)), Pos("MSFT", 4, H(50), H(51)) >>,
      << Pos("AAPL", 3, H(0), H(103)) >> }

\* ------------------------------------------------- Telegram conversation
\* The conversation state and context.user_data are kept per user (the
\* ConversationHandler is built with its default per-chat, per-user key), and
\* reply[u] is the last text the bot sent to user u with reply_text.
TICKER == 0

ORDER_SIZE == 1

PROFIT_PCT == 2

END == -1

Users == {1, 2}

\* d[k] = v on a Python dict held as a function with a growing domain.
DictSet(d, k, v) == [x \in DOMAIN d \cup {k} |-> IF x = k THEN v ELSE d[x]]

\* Mutant of SaveConfig: an existing entry is kept (setdefault): first write wins.
SaveConfigFirstWins(ticker, size, percent) ==
    IF ticker \in DOMAIN configs
    THEN configs
    ELSE DictSet(configs, ticker, [order_size |-> size, min_profit |-> percent])

\* Mutant of SaveConfig: the store is rebuilt with the new entry alone.
SaveConfigClobber(ticker, size, percent) ==
    [x \in {ticker} |-> [order_size |-> size, min_profit |-> percent]]

\* configs[ticker] = {'order_size': size, 'min_profit': percent}: the new store.
SaveConfig(ticker, size, percent) ==
    DictSet(configs, ticker, [order_size |-> size, min_profit |-> percent])

\* /set entry point: only taken when no conversation is running.
set_ticker(u) ==
    /\ u \in chats
    /\ conv[u] = END
    /\ conv' = [conv EXCEPT ![u] = TICKER]
    /\ reply' = [reply EXCEPT ![u] = [msg |-> "Please enter the ticker symbol"]]
    /\ UNCHANGED <<configs, user_data, chats, pool, pc, frame, calls, exc, resp>>

\* Mutant of ticker_received: the ticker is reported but not stored in user_data.
ticker_receivedNoStore(u) ==
    /\ conv[u] = TICKER
    /\ \E text \in TickerTexts :
         reply' = [reply EXCEPT ![u] = [msg |-> "Ticker set", ticker |-> Upper(Strip(text))]]
    /\ conv' = [conv EXCEPT ![u] = ORDER_SIZE]
    /\ UNCHANGED <<configs, user_data, chats, pool, pc, frame, calls, exc, resp>>

ticker_received(u) ==
    /\ conv[u] = TICKER
    /\ \E text \in TickerTexts :
         LET ticker == Upper(Strip(text)) IN
           /\ user_data' = [user_data EXCEPT ![u] = DictSet(user_data[u], "ticker", ticker)]
           /\ reply' = [reply EXCEPT ![u] = [msg |-> "Ticker set", ticker |-> ticker]]
    /\ conv' = [conv EXCEPT ![u] = ORDER_SIZE]
    /\ UNCHANGED <<configs, chats, pool, pc, frame, calls, exc, resp>>

order_size_received(u) ==
    /\ conv[u] = ORDER_SIZE
    /\ \E text \in SizeTexts :
         LET size == ParseFloat(Strip(text)) IN
           IF size = None
           THEN /\ reply' = [reply EXCEPT ![u] = [msg |-> "Invalid number"]]
                /\ UNCHANGED <<conv, user_data>>
           ELSE /\ user_data' = [user_data EXCEPT ![u] =
                                   DictSet(user_data[u], "order_size", size)]
                /\ reply' = [reply EXCEPT ![u] = [msg |-> "Order size set", size |-> size]]
                /\ conv' = [conv EXCEPT ![u] = PROFIT_PCT]
    /\ UNCHANGED <<configs, chats, pool, pc, frame, calls, exc, resp>>

\* Mutant of profit_received: the stored entry is updated in place, so a
\* request that holds the entry it looked up sees the new values.
profit_receivedInPlace(u) ==
    /\ conv[u] = PROFIT_PCT
    /\ \E text \in ProfitTexts :
         LET percent == ParseFloat(Strip(text)) IN
           IF percent = None
           THEN /\ reply' = [reply EXCEPT ![u] = [msg |-> "Invalid percentage"]]
                /\ UNCHANGED <<conv, configs, frame>>
           ELSE LET ticker == user_data[u]["ticker"]
                    size == user_data[u]["order_size"]
                    entry == [order_size |-> size, min_profit |-> percent]
                IN /\ configs' = DictSet(configs, ticker, entry)
                   /\ frame' = [w \in Workers |->
                                  IF /\ "cfg" \in DOMAIN frame[w]
                                     /\ frame[w].cfg # None
                                     /\ frame[w].ticker = ticker
                                  THEN [frame[w] EXCEPT !["cfg"] = entry]
                                  ELSE frame[w]]
                   /\ reply' = [reply EXCEPT ![u] =
                                  [msg |-> "Configuration saved", ticker |-> ticker,
                                   size |-> size, percent |-> percent]]
                   /\ conv' = [conv EXCEPT ![u] = END]
    /\ UNCHANGED <<user_data, chats, pool, pc, calls, exc, resp>>

profit_received(u) ==
    /\ conv[u] = PROFIT_PCT
    /\ \E text \in ProfitTexts :
         LET percent == ParseFloat(Strip(text)) IN
           IF percent = None
           THEN /\ reply' = [reply EXCEPT ![u] = [msg |-> "Invalid percentage"]]
                /\ UNCHANGED <<conv, configs>>
           ELSE LET ticker == user_data[u]["ticker"]
                    size == user_data[u]["order_size"]
                IN /\ configs' = SaveConfig(ticker, size, percent)
                   /\ reply' = [reply EXCEPT ![u] =
                                  [msg |-> "Configuration saved", ticker |-> ticker,
                                   size |-> size, percent |-> percent]]
                   /\ conv' = [conv EXCEPT ![u] = END]
    /\ UNCHANGED <<user_data, chats, pool, pc, frame, calls, exc, resp>>

\* Mutant of cancel: a cancel at the last step saves what was entered so far.
cancelSavingInput(u) ==
    /\ conv[u] # END
    /\ conv' = [conv EXCEPT ![u] = END]
    /\ reply' = [reply EXCEPT ![u] = [msg |-> "Configuration canceled"]]
    /\ configs' = IF conv[u] = PROFIT_PCT
                  THEN SaveConfig(user_data[u]["ticker"], user_data[u]["order_size"], Fin(0))
                  ELSE configs
    /\ UNCHANGED <<user_data, chats, pool, pc, frame, calls, exc, resp>>

\* /cancel fallback: matches in every state of a running conversation.
cancel(u) ==
    /\ conv[u] # END
    /\ conv' = [conv EXCEPT ![u] = END]
    /\ reply' = [reply EXCEPT ![u] = [msg |-> "Configuration canceled"]]
    /\ UNCHANGED <<configs, user_data, chats, pool, pc, frame, calls, exc, resp>>

\* ------------------------------------------------------------- webhook
\* frame[w][k] = v: a local of request w is bound by assignment.
Bind(w, k, v) == [frame EXCEPT ![w] = DictSet(frame[w], k, v)]

Called(w, names) == [calls EXCEPT ![w] = calls[w] \o names]

\* The handler returns and webhook() returns jsonify({'status': 'processed'}).
Return(w) ==
    /\ pc' = [pc EXCEPT ![w] = "sent"]
    /\ resp' = [resp EXCEPT ![w] = "processed"]
    /\ exc' = exc

\* An exception leaves the handler and webhook(); Flask answers 500.
Raise(w, e) ==
    /\ pc' = [pc EXCEPT ![w] = "sent"]
    /\ resp' = [resp EXCEPT ![w] = "500"]
    /\ exc' = [exc EXCEPT ![w] = e]

Goto(w, label) ==
    /\ pc' = [pc EXCEPT ![w] = label]
    /\ UNCHANGED <<resp, exc>>

\* Mutant of ConfigsGet: a missing key yields a default entry instead of None.
ConfigsGetDefault(ticker) ==
    IF ticker \in DOMAIN configs
    THEN configs[ticker]
    ELSE [order_size |-> Fin(H(1000)), min_profit |-> Fin(5)]

\* configs.get(ticker)
ConfigsGet(ticker) == IF ticker \in DOMAIN configs THEN configs[ticker] ELSE None

\* Mutant of Route: the else branch falls into the buy path.
RouteDefaultBuy(action) ==
    CASE action = "SELL" -> "sell_lookup"
      [] OTHER -> "buy_lookup"

\* Where webhook() goes for an upper-cased action.
Route(action) ==
    CASE action = "BUY" -> "buy_lookup"
      [] action = "SELL" -> "sell_lookup"
      [] OTHER -> "return"

\* A request arrives at a free worker thread: parse, upper-case, dispatch.
webhook(w) ==
    /\ w \in pool
    /\ pc[w] \in {"idle", "sent"}
    /\ \E rt \in RawTickers, ra \in RawActions :
         LET ticker == Upper(rt)
             action == Upper(ra)
         IN /\ frame' = [frame EXCEPT ![w] = [ticker |-> ticker, action |-> action]]
            /\ calls' = [calls EXCEPT ![w] = << >>]
            /\ exc' = [exc EXCEPT ![w] = "none"]
            /\ IF Route(action) = "return"
               THEN /\ pc' = [pc EXCEPT ![w] = "sent"]
                    /\ resp' = [resp EXCEPT ![w] = "processed"]
               ELSE /\ pc' = [pc EXCEPT ![w] = Route(action)]
                    /\ resp' = [resp EXCEPT ![w] = "none"]
    /\ UNCHANGED <<configs, conv, user_data, reply, chats, pool>>

\* ------------------------------------------------------------ handle_buy
\* next((float(v.value) for v in account_values
\*       if v.tag == 'AvailableFunds' and v.currency == 'USD'), 0.0)
RECURSIVE AvailableFunds(_)
AvailableFunds(account_values) ==
    IF account_values = << >> THEN 0
    ELSE LET v == Head(account_values) IN
           IF v.tag = "AvailableFunds" /\ v.currency = "USD"
           THEN v.value
           ELSE AvailableFunds(Tail(account_values))

\* Mutant of InsufficientFunds: the operands of the comparison are swapped.
InsufficientFundsSwapped(available, cfg) ==
    cfg.order_size.k = "fin" /\ cfg.order_size.v < available

\* available < cfg['order_size']
InsufficientFunds(available, cfg) == FinLess(available, cfg.order_size)

\* Mutant of SelectPrice: the midpoint is used whatever the last price is.
SelectPriceMidOnly(ticker_data) == (ticker_data.ask + ticker_data.bid) \div 2

\* ticker_data.last if ticker_data.last > 0 else (ticker_data.ask + ticker_data.bid) / 2
SelectPrice(ticker_data) ==
    IF ticker_data.last > 0
    THEN ticker_data.last
    ELSE (ticker_data.ask + ticker_data.bid) \div 2

\* int(cfg['order_size'] / price): the quantity, or the exception raised.
\* Float division by zero raises before int() sees the quotient; int() raises
\* ValueError on nan and OverflowError on inf.
BuyQty(cfg, price) ==
    CASE price = 0 -> [raises |-> "ZeroDivisionError"]
      [] cfg.order_size.k = "nan" -> [raises |-> "ValueError"]
      [] cfg.order_size.k = "inf" -> [raises |-> "OverflowError"]
      [] OTHER -> [qty |-> TruncDiv(cfg.order_size.v, price)]

\* Mutant of LimitOrder: the side is always BUY.
LimitOrderAlwaysBuy(ticker, action, totalQuantity, lmtPrice) ==
    [symbol |-> ticker, action |-> "BUY",
     totalQuantity |-> totalQuantity, lmtPrice |-> lmtPrice]

\* LimitOrder(action, totalQuantity, lmtPrice) placed on Stock(ticker, 'SMART', 'USD')
LimitOrder(ticker, action, totalQuantity, lmtPrice) ==
    [symbol |-> ticker, action |-> action,
     totalQuantity |-> totalQuantity, lmtPrice |-> lmtPrice]

\* cfg = configs.get(ticker); if not cfg: return
BuyLookup(w) ==
    /\ pc[w] = "buy_lookup"
    /\ LET cfg == ConfigsGet(frame[w].ticker) IN
         /\ frame' = Bind(w, "cfg", cfg)
         /\ IF cfg = None THEN Return(w) ELSE Goto(w, "buy_funds")
    /\ UNCHANGED <<configs, conv, user_data, reply, chats, pool, calls>>

\* account_values = ib.accountValues() ... if available < cfg['order_size']: return
BuyFunds(w) ==
    /\ pc[w] = "buy_funds"
    /\ calls' = Called(w, <<"accountValues">>)
    /\ \/ /\ Raise(w, "BrokerError")
          /\ frame' = frame
       \/ \E account_values \in AccountValueLists :
            LET available == AvailableFunds(account_values) IN
              /\ frame' = [frame EXCEPT ![w] =
                              DictSet(DictSet(frame[w], "account_values", account_values),
                                      "available", available)]
              /\ IF InsufficientFunds(available, frame[w].cfg)
                 THEN Return(w)
                 ELSE Goto(w, "buy_quote")
    /\ UNCHANGED <<configs, conv, user_data, reply, chats, pool>>

\* qualifyContracts, reqMktData, sleep; price and qty; if qty <= 0: return
BuyQuote(w) ==
    /\ pc[w] = "buy_quote"
    /\ \/ /\ \E failed \in {<<"qualifyContracts">>, <<"qualifyContracts", "reqMktData">>} :
               calls' = Called(w, failed)
          /\ Raise(w, "BrokerError")
          /\ frame' = frame
       \/ /\ calls' = Called(w, <<"qualifyContracts", "reqMktData">>)
          /\ \E ticker_data \in Quotes :
               LET price == SelectPrice(ticker_data)
                   q == BuyQty(frame[w].cfg, price)
                   f1 == DictSet(DictSet(frame[w], "ticker_data", ticker_data),
                                 "price", price)
               IN IF "raises" \in DOMAIN q
                  THEN /\ frame' = [frame EXCEPT ![w] = f1]
                       /\ Raise(w, q.raises)
                  ELSE /\ frame' = [frame EXCEPT ![w] = DictSet(f1, "qty", q.qty)]
                       /\ IF q.qty <= 0 THEN Return(w) ELSE Goto(w, "buy_place")
    /\ UNCHANGED <<configs, conv, user_data, reply, chats, pool>>

\* Mutant of BuyPlace: a request does not place an order for a symbol while
\* another request holds an order it placed for that symbol.
BuyPlaceSerialized(w) ==
    /\ pc[w] = "buy_place"
    /\ \A o \in Workers \ {w} :
         ~("trade" \in DOMAIN frame[o] /\ frame[o].ticker = frame[w].ticker)
    /\ calls' = Called(w, <<"placeOrder">>)
    /\ frame' = Bind(w, "trade",
                     LimitOrder(frame[w].ticker, "BUY", frame[w].qty, frame[w].price))
    /\ Return(w)
    /\ UNCHANGED <<configs, conv, user_data, reply, chats, pool>>

\* order = LimitOrder('BUY', qty, price); trade = ib.placeOrder(contract, order)
BuyPlace(w) ==
    /\ pc[w] = "buy_place"
    /\ calls' = Called(w, <<"placeOrder">>)
    /\ \/ /\ Raise(w, "BrokerError")
          /\ frame' = frame
       \/ /\ frame' = Bind(w, "trade",
                            LimitOrder(frame[w].ticker, "BUY", frame[w].qty, frame[w].price))
          /\ Return(w)
    /\ UNCHANGED <<configs, conv, user_data, reply, chats, pool>>

\* ----------------------------------------------------------- handle_sell
\* Mutant of FindPosition: the p.position > 0 test is missing.
RECURSIVE FindPositionAnyQty(_, _)
FindPositionAnyQty(positions, ticker) ==
    IF positions = << >> THEN None
    ELSE LET p == Head(positions) IN
           IF Upper(p.symbol) = ticker
           THEN p
           ELSE FindPositionAnyQty(Tail(positions), ticker)

\* next((p for p in positions
\*       if p.contract.symbol.upper() == ticker and p.position > 0), None)
RECURSIVE FindPosition(_, _)
FindPosition(positions, ticker) ==
    IF positions = << >> THEN None
    ELSE LET p == Head(positions) IN
           IF Upper(p.symbol) = ticker /\ p.position > 0
           THEN p
           ELSE FindPosition(Tail(positions), ticker)

\* pnl_value = (market_price - avg_cost) * position.position
PnlValue(position) == (position.marketPrice - position.averageCost) * position.position

\* invested = avg_cost * position.position
Invested(position) == position.averageCost * position.position

\* pnl_pct = (pnl_value / invested) * 100, an exact fraction num / den with den > 0;
\* the division raises ZeroDivisionError when invested is 0.
PnlPct(position) ==
    CASE Invested(position) = 0 -> [raises |-> "ZeroDivisionError"]
      [] Invested(position) > 0 ->
           [num |-> 100 * PnlValue(position), den |-> Invested(position)]
      [] OTHER ->
           [num |-> -(100 * PnlValue(position)), den |-> -Invested(position)]

\* Mutant of BelowThreshold: <= in place of <.
BelowOrAtThreshold(pnl_pct, cfg) ==
    CASE cfg.min_profit.k = "nan" -> FALSE
      [] cfg.min_profit.k = "inf" -> TRUE
      [] OTHER -> 2 * pnl_pct.num <= cfg.min_profit.v * pnl_pct.den

\* pnl_pct < cfg['min_profit'] (min_profit is in halves: num / den < v / 2)
BelowThreshold(pnl_pct, cfg) ==
    CASE cfg.min_profit.k = "nan" -> FALSE
      [] cfg.min_profit.k = "inf" -> TRUE
      [] OTHER -> 2 * pnl_pct.num < cfg.min_profit.v * pnl_pct.den

\* Mutant of SellOrder: the limit price is the average cost.
SellOrderAtCost(ticker, position) ==
    LimitOrder(ticker, "SELL", position.position, position.averageCost)

\* LimitOrder('SELL', position.position, market_price)
SellOrder(ticker, position) ==
    LimitOrder(ticker, "SELL", position.position, position.marketPrice)

\* cfg = configs.get(ticker); if not cfg: return
SellLookup(w) ==
    /\ pc[w] = "sell_lookup"
    /\ LET cfg == ConfigsGet(frame[w].ticker) IN
         /\ frame' = Bind(w, "cfg", cfg)
         /\ IF cfg = None THEN Return(w) ELSE Goto(w, "sell_positions")
    /\ UNCHANGED <<configs, conv, user_data, reply, chats, pool, calls>>

\* positions = ib.positions() ... if pnl_pct < cfg['min_profit']: return
SellPositions(w) ==
    /\ pc[w] = "sell_positions"
    /\ calls' = Called(w, <<"positions">>)
    /\ \/ /\ Raise(w, "BrokerError")
          /\ frame' = frame
       \/ \E positions \in PositionLists :
            LET position == FindPosition(positions, frame[w].ticker)
                f1 == DictSet(DictSet(frame[w], "positions", positions),
                              "position", position)
            IN IF position = None
               THEN /\ frame' = [frame EXCEPT ![w] = f1]
                    /\ Return(w)
               ELSE LET pnl_pct == PnlPct(position) IN
                      IF "raises" \in DOMAIN pnl_pct
                      THEN /\ frame' = [frame EXCEPT ![w] = f1]
                           /\ Raise(w, pnl_pct.raises)
                      ELSE /\ frame' = [frame EXCEPT ![w] = DictSet(f1, "pnl_pct", pnl_pct)]
                           /\ IF BelowThreshold(pnl_pct, frame[w].cfg)
                              THEN Return(w)
                              ELSE Goto(w, "sell_place")
    /\ UNCHANGED <<configs, conv, user_data, reply, chats, pool>>

\* Mutant of SellPlace: once the position is sold its configuration is dropped.
SellPlaceForget(w) ==
    /\ pc[w] = "sell_place"
    /\ calls' = Called(w, <<"qualifyContracts", "placeOrder">>)
    /\ frame' = Bind(w, "trade", SellOrder(frame[w].ticker, frame[w].position))
    /\ configs' = [x \in DOMAIN configs \ {frame[w].ticker} |-> configs[x]]
    /\ Return(w)
    /\ UNCHANGED <<conv, user_data, reply, chats, pool>>

\* qualifyContracts; order = LimitOrder('SELL', ...); trade = ib.placeOrder(contract, order)
SellPlace(w) ==
    /\ pc[w] = "sell_place"
    /\ \/ /\ \E failed \in {<<"qualifyContracts">>, <<"qualifyContracts", "placeOrder">>} :
               calls' = Called(w, failed)
          /\ Raise(w, "BrokerError")
          /\ frame' = frame
       \/ /\ calls' = Called(w, <<"qualifyContracts", "placeOrder">>)
          /\ frame' = Bind(w, "trade", SellOrder(frame[w].ticker, frame[w].position))
          /\ Return(w)
    /\ UNCHANGED <<configs, conv, user_data, reply, chats, pool>>

\* ---------------------------------------------------------- specification
Init ==
    /\ configs = << >>
    /\ conv = [u \in Users |-> END]
    /\ user_data = [u \in Users |-> << >>]
    /\ reply = [u \in Users |-> None]
    /\ chats = {1}
    /\ pool = {1}
    /\ pc = [w \in Workers |-> "idle"]
    /\ frame = [w \in Workers |-> << >>]
    /\ calls = [w \in Workers |-> << >>]
    /\ exc = [w \in Workers |-> "none"]
    /\ resp = [w \in Workers |-> "none"]

Next ==
    \/ \E u \in Users : set_ticker(u)
    \/ \E u \in Users : ticker_received(u)
    \/ \E u \in Users : order_size_received(u)
    \/ \E u \in Users : profit_received(u)
    \/ \E u \in Users : cancel(u)
    \/ \E w \in Workers : webhook(w)
    \/ \E w \in Workers : BuyLookup(w)
    \/ \E w \in Workers : BuyFunds(w)
    \/ \E w \in Workers : BuyQuote(w)
    \/ \E w \in Workers : BuyPlace(w)
    \/ \E w \in Workers : SellLookup(w)
    \/ \E w \in Workers : SellPositions(w)
    \/ \E w \in Workers : SellPlace(w)

Spec == Init /\ [][Next]_vars

\* Two webhook requests in flight at once (Flask serves each request on its own
\* thread), one Telegram user.
InitRace ==
    /\ configs = << >>
    /\ conv = [u \in Users |-> END]
    /\ user_data = [u \in Users |-> << >>]
    /\ reply = [u \in Users |-> None]
    /\ chats = {1}
    /\ pool = {1, 2}
    /\ pc = [w \in Workers |-> "idle"]
    /\ frame = [w \in Workers |-> << >>]
    /\ calls = [w \in Workers |-> << >>]
    /\ exc = [w \in Workers |-> "none"]
    /\ resp = [w \in Workers |-> "none"]

\* The inputs of the two-request runs: one symbol, one configuration, and a
\* broker that reports funds of 1000 or 500, one quote and one positions list.
RaceInputs ==
    /\ \A u \in Users :
         /\ "ticker" \in DOMAIN user_data[u] => user_data[u]["ticker"] = "AAPL"
         /\ "order_size" \in DOMAIN user_data[u]
              => user_data[u]["order_size"] = Fin(H(1000))
    /\ \A t \in DOMAIN configs : configs[t].min_profit = Fin(5)
    /\ \A w \in Workers :
         pc[w] # "idle" =>
           /\ frame[w].ticker = "AAPL"
           /\ frame[w].action \in {"BUY", "SELL"}
           /\ "available" \in DOMAIN frame[w]
                => frame[w].available \in {H(1000), H(500)}
           /\ "ticker_data" \in DOMAIN frame[w]
                => frame[w].ticker_data.last = H(333)
           /\ "positions" \in DOMAIN frame[w]
                => Len(frame[w].positions) = 2 /\ frame[w].positions[1].position = 0

NextRace ==
    \/ (\E u \in Users : set_ticker(u)) /\ RaceInputs'
    \/ (\E u \in Users : ticker_received(u)) /\ RaceInputs'
    \/ (\E u \in Users : order_size_received(u)) /\ RaceInputs'
    \/ (\E u \in Users : profit_received(u)) /\ RaceInputs'
    \/ (\E u \in Users : cancel(u)) /\ RaceInputs'
    \/ (\E w \in Workers : webhook(w)) /\ RaceInputs'
    \/ (\E w \in Workers : BuyLookup(w)) /\ RaceInputs'
    \/ (\E w \in Workers : BuyFunds(w)) /\ RaceInputs'
    \/ (\E w \in Workers : BuyQuote(w)) /\ RaceInputs'
    \/ (\E w \in Workers : BuyPlace(w)) /\ RaceInputs'
    \/ (\E w \in Workers : SellLookup(w)) /\ RaceInputs'
    \/ (\E w \in Workers : SellPositions(w)) /\ RaceInputs'
    \/ (\E w \in Workers : SellPlace(w)) /\ RaceInputs'

SpecRace == InitRace /\ [][NextRace]_vars

\* Two Telegram users configuring at once, one webhook request in flight.
InitUsers ==
    /\ configs = << >>
    /\ conv = [u \in Users |-> END]
    /\ user_data = [u \in Users |-> << >>]
    /\ reply = [u \in Users |-> None]
    /\ chats = {1, 2}
    /\ pool = {1}
    /\ pc = [w \in Workers |-> "idle"]
    /\ frame = [w \in Workers |-> << >>]
    /\ calls = [w \in Workers |-> << >>]
    /\ exc = [w \in Workers |-> "none"]
    /\ resp = [w \in Workers |-> "none"]

\* The inputs of the two-user runs: user 1 configures AAPL and user 2 MSFT,
\* with order size 1000 or -2.5 and profit 2.5; the broker reports funds of
\* 500, one quote and at most one open position.
UsersInputs ==
    /\ "ticker" \in DOMAIN user_data[1] => user_data[1]["ticker"] = "AAPL"
    /\ "ticker" \in DOMAIN user_data[2] => user_data[2]["ticker"] = "MSFT"
    /\ \A u \in Users :
         "order_size" \in DOMAIN user_data[u] => user_data[u]["order_size"].k = "fin"
    /\ \A t \in DOMAIN configs : configs[t].min_profit = Fin(5)
    /\ \A w \in Workers :
         /\ "account_values" \in DOMAIN frame[w]
              => Len(frame[w].account_values) = 1
         /\ "ticker_data" \in DOMAIN frame[w]
              => frame[w].ticker_data.bid = H(-1)
         /\ "positions" \in DOMAIN frame[w]
              => \/ frame[w].positions = << >>
                 \/ /\ Len(frame[w].positions) = 2
                    /\ frame[w].positions[1].position = 0

NextUsers ==
    \/ (\E u \in Users : set_ticker(u)) /\ UsersInputs'
    \/ (\E u \in Users : ticker_received(u)) /\ UsersInputs'
    \/ (\E u \in Users : order_size_received(u)) /\ UsersInputs'
    \/ (\E u \in Users : profit_received(u)) /\ UsersInputs'
    \/ (\E u \in Users : cancel(u)) /\ UsersInputs'
    \/ (\E w \in Workers : webhook(w)) /\ UsersInputs'
    \/ (\E w \in Workers : BuyLookup(w)) /\ UsersInputs'
    \/ (\E w \in Workers : BuyFunds(w)) /\ UsersInputs'
    \/ (\E w \in Workers : BuyQuote(w)) /\ UsersInputs'
    \/ (\E w \in Workers : BuyPlace(w)) /\ UsersInputs'
    \/ (\E w \in Workers : SellLookup(w)) /\ UsersInputs'
    \/ (\E w \in Workers : SellPositions(w)) /\ UsersInputs'
    \/ (\E w \in Workers : SellPlace(w)) /\ UsersInputs'

SpecUsers == InitUsers /\ [][NextUsers]_vars

\* ------------------------------------------------------------ properties
Has(w, k) == k \in DOMAIN frame[w]

InFlight(w) == pc[w] # "idle"

DidCall(cs, name) == \E i \in DOMAIN cs : cs[i] = name

\* The request is over, no order was placed and placeOrder was never called.
NoOp(w) ==
    /\ pc[w] = "sent"
    /\ ~Has(w, "trade")
    /\ ~DidCall(calls[w], "placeOrder")

\* C1: a BUY or SELL signal whose symbol has no entry in configs when the
\* handler looks it up ends there: the handler returns, the acknowledgement is
\* sent, and neither placeOrder nor any other broker call is made.
C1_NoConfigNoOrder ==
    [][\A w \in Workers :
         (/\ pc[w] \in {"buy_lookup", "sell_lookup"}
          /\ pc'[w] # pc[w]
          /\ frame[w].ticker \notin DOMAIN configs)
         => (/\ pc'[w] = "sent"
             /\ resp'[w] = "processed"
             /\ calls'[w] = << >>
             /\ "trade" \notin DOMAIN frame'[w])]_vars

\* A signal for an unconfigured symbol was dropped while another symbol is configured.
C1_Witness ==
    \E w \in Workers :
      /\ pc[w] = "sent"
      /\ frame[w].action \in {"BUY", "SELL"}
      /\ Has(w, "cfg")
      /\ frame[w].cfg = None
      /\ DOMAIN configs # {}
      /\ calls[w] = << >>

\* The USD AvailableFunds value the broker reported, 0 when it reported none.
UsdFunds(account_values) ==
    LET S == {i \in DOMAIN account_values :
                /\ account_values[i].tag = "AvailableFunds"
                /\ account_values[i].currency = "USD"}
    IN IF S = {} THEN 0
       ELSE account_values[CHOOSE i \in S : \A j \in S : i <= j].value

\* C2: on the buy path with a positive order_size, reported USD funds strictly
\* below order_size end the request with no order and no placeOrder call.
C2_FundsGate ==
    \A w \in Workers :
      (/\ Has(w, "account_values")
       /\ frame[w].action = "BUY"
       /\ frame[w].cfg.order_size.k = "fin"
       /\ frame[w].cfg.order_size.v > 0
       /\ UsdFunds(frame[w].account_values) < frame[w].cfg.order_size.v)
      => NoOp(w)

\* The broker reported no USD AvailableFunds at all and the buy was dropped.
C2_Witness ==
    \E w \in Workers :
      /\ Has(w, "account_values")
      /\ frame[w].cfg.order_size = Fin(H(1000))
      /\ \A i \in DOMAIN frame[w].account_values :
           ~(/\ frame[w].account_values[i].tag = "AvailableFunds"
             /\ frame[w].account_values[i].currency = "USD")
      /\ frame[w].available = 0
      /\ NoOp(w)
      /\ resp[w] = "processed"

\* pnl_pct is exactly the configured min_profit.
AtThreshold(w) ==
    /\ Has(w, "pnl_pct")
    /\ frame[w].cfg.min_profit.k = "fin"
    /\ 2 * frame[w].pnl_pct.num = frame[w].cfg.min_profit.v * frame[w].pnl_pct.den

\* C3 as stated: with pnl_pct exactly equal to min_profit, handle_sell
\* submits no sell order.
C3_BoundaryNoSell ==
    \A w \in Workers : AtThreshold(w) => ~Has(w, "trade")

\* C3 amended: with pnl_pct exactly equal to min_profit, handle_sell does not
\* stop at the threshold test; it goes on to place the SELL order for the
\* position, and only a broker call that raises keeps the order from being placed.
C3_BoundarySells ==
    \A w \in Workers :
      AtThreshold(w) =>
        \/ pc[w] = "sell_place"
        \/ /\ pc[w] = "sent"
           /\ exc[w] = "none"
           /\ Has(w, "trade")
           /\ frame[w].trade.action = "SELL"
           /\ DidCall(calls[w], "placeOrder")
        \/ /\ pc[w] = "sent"
           /\ exc[w] = "BrokerError"
           /\ DidCall(calls[w], "qualifyContracts")

\* A position at exactly the 3 percent threshold was sold.
C3_Witness ==
    \E w \in Workers :
      /\ AtThreshold(w)
      /\ frame[w].cfg.min_profit = Fin(H(3))
      /\ Has(w, "trade")
      /\ frame[w].trade = LimitOrder("AAPL", "SELL", 10, H(103))

\* C4 as stated: every order placed has a quantity above 0 and a limit price above 0.
C4_OrderPositive ==
    \A w \in Workers :
      Has(w, "trade") =>
        /\ frame[w].trade.totalQuantity > 0
        /\ frame[w].trade.lmtPrice > 0

\* C5 as stated: every request is answered with the fixed acknowledgement and
\* no exception leaves the buy or sell path.
C5_AlwaysAcknowledged ==
    \A w \in Workers :
      pc[w] = "sent" => (resp[w] = "processed" /\ exc[w] = "none")

FloorDiv(a, b) == IF b > 0 THEN a \div b ELSE (-a) \div (-b)

\* C6 as stated: a BUY order has quantity floor(order_size / price), so that
\* quantity * price does not exceed order_size, and a computed quantity <= 0
\* places no order.
C6_BuyQuantity ==
    \A w \in Workers :
      /\ (Has(w, "trade") /\ frame[w].trade.action = "BUY") =>
           /\ frame[w].cfg.order_size.k = "fin"
           /\ frame[w].trade.totalQuantity =
                FloorDiv(frame[w].cfg.order_size.v, frame[w].trade.lmtPrice)
           /\ frame[w].trade.totalQuantity * frame[w].trade.lmtPrice
                <= frame[w].cfg.order_size.v
      /\ (Has(w, "qty") /\ frame[w].qty <= 0) => NoOp(w)

\* C7: the limit price of a placed BUY order is the quote's last price when
\* last > 0 and otherwise exactly the midpoint of bid and ask.
C7_PriceSelection ==
    \A w \in Workers :
      (Has(w, "trade") /\ frame[w].trade.action = "BUY") =>
        IF frame[w].ticker_data.last > 0
        THEN frame[w].trade.lmtPrice = frame[w].ticker_data.last
        ELSE 2 * frame[w].trade.lmtPrice
               = frame[w].ticker_data.bid + frame[w].ticker_data.ask

\* last=0, bid=10, ask=12: a BUY order was placed at 11.
C7_Witness ==
    \E w \in Workers :
      /\ Has(w, "trade")
      /\ frame[w].trade.action = "BUY"
      /\ frame[w].ticker_data = [last |-> H(0), bid |-> H(10), ask |-> H(12)]
      /\ frame[w].trade.lmtPrice = H(11)

\* The entries of a positions list that are open positions in the symbol.
OpenIn(positions, ticker) ==
    {i \in DOMAIN positions :
       Upper(positions[i].symbol) = ticker /\ positions[i].position > 0}

\* (market_price - average_cost) * quantity / (average_cost * quantity) * 100
\* is below a finite threshold given in halves.
PctBelow(p, halves) ==
    LET n == 200 * (p.marketPrice - p.averageCost) * p.position
        d == p.averageCost * p.position
    IN IF d > 0 THEN n < halves * d ELSE n > halves * d

\* C8: a placed SELL order is for the whole quantity of the first open
\* position the broker reported in the symbol, at that position's market price,
\* and that position's pnl_pct is not below min_profit.
C8_SellWholePosition ==
    \A w \in Workers :
      (Has(w, "trade") /\ frame[w].trade.action = "SELL") =>
        LET open == OpenIn(frame[w].positions, frame[w].ticker) IN
          /\ open # {}
          /\ LET p == frame[w].positions[CHOOSE i \in open : \A j \in open : i <= j] IN
               /\ frame[w].trade.symbol = frame[w].ticker
               /\ frame[w].trade.totalQuantity = p.position
               /\ frame[w].trade.lmtPrice = p.marketPrice
               /\ p.averageCost * p.position # 0
               /\ frame[w].cfg.min_profit.k = "fin"
                    => ~PctBelow(p, frame[w].cfg.min_profit.v)
               /\ frame[w].cfg.min_profit.k # "inf"

\* quantity 10, average cost 100, market price 103, min_profit 2.5: sold 10 at 103.
C8_Witness ==
    \E w \in Workers :
      /\ Has(w, "trade")
      /\ frame[w].position = Pos("AAPL", 10, H(100), H(103))
      /\ frame[w].cfg.min_profit = Fin(5)
      /\ frame[w].trade = LimitOrder("AAPL", "SELL", 10, H(103))

\* C9: on the sell path, when the broker reports no position in the symbol
\* with quantity > 0, the request ends with no order and no placeOrder call.
C9_NoPositionNoSell ==
    \A w \in Workers :
      (Has(w, "positions") /\ OpenIn(frame[w].positions, frame[w].ticker) = {})
      => (NoOp(w) /\ calls[w] = <<"positions">>)

\* The broker reported a short position in the symbol and a position in
\* another symbol; nothing was sold.
C9_Witness ==
    \E w \in Workers :
      /\ Has(w, "positions")
      /\ frame[w].ticker = "AAPL"
      /\ frame[w].positions
           = << Pos("AAPL", -5, H(100), H(103)), Pos("MSFT", 4, H(50), H(51)) >>
      /\ NoOp(w)
      /\ resp[w] = "processed"

\* C10: a signal whose upper-cased action is neither BUY nor SELL never enters
\* the buy or sell path: no broker call, no order, no exception, and the
\* acknowledgement is sent.
C10_UnknownAction ==
    \A w \in Workers :
      (InFlight(w) /\ frame[w].action \notin {"BUY", "SELL"}) =>
        /\ pc[w] = "sent"
        /\ resp[w] = "processed"
        /\ exc[w] = "none"
        /\ calls[w] = << >>
        /\ DOMAIN frame[w] = {"ticker", "action"}

\* An unknown action arrived for a symbol that is configured.
C10_Witness ==
    \E w \in Workers :
      /\ InFlight(w)
      /\ frame[w].action = "HOLD"
      /\ frame[w].ticker \in DOMAIN configs
      /\ resp[w] = "processed"

\* The text of a reply, "" before the bot has replied.
Msg(r) == IF r = None THEN "" ELSE r.msg

\* C11: the store changes only in the step that accepts the profit percentage,
\* where it gains exactly that session's entry; a cancel leaves it unchanged;
\* and the steps of a session come in order (symbol, order size, profit), so
\* that step follows the other two.
C11_WrittenOnlyOnCompletion ==
    [][/\ configs' # configs =>
            \E u \in Users :
              /\ conv[u] = PROFIT_PCT
              /\ conv'[u] = END
              /\ Msg(reply'[u]) = "Configuration saved"
              /\ {"ticker", "order_size"} \subseteq DOMAIN user_data[u]
              /\ configs' = DictSet(configs, user_data[u]["ticker"],
                                     [order_size |-> user_data[u]["order_size"],
                                      min_profit |-> reply'[u].percent])
       /\ \A u \in Users :
            (reply'[u] # reply[u] /\ Msg(reply'[u]) = "Configuration canceled")
            => (configs' = configs /\ conv'[u] = END)
       /\ \A u \in Users :
            conv'[u] # conv[u] =>
              \/ conv'[u] = END
              \/ conv[u] = END /\ conv'[u] = TICKER
              \/ conv[u] = TICKER /\ conv'[u] = ORDER_SIZE
              \/ conv[u] = ORDER_SIZE /\ conv'[u] = PROFIT_PCT]_vars

\* A session was cancelled after the symbol and the order size were entered,
\* and the store is still empty.
C11_Witness ==
    \E u \in Users :
      /\ Msg(reply[u]) = "Configuration canceled"
      /\ {"ticker", "order_size"} \subseteq DOMAIN user_data[u]
      /\ configs = << >>

PositiveFinite(f) == f.k = "fin" /\ f.v > 0

\* C12 as stated: only a positive finite number gets past the order-size step,
\* so every order_size held by a session or by the store is positive and finite.
C12_OrderSizePositiveFinite ==
    /\ \A u \in Users :
         "order_size" \in DOMAIN user_data[u] => PositiveFinite(user_data[u]["order_size"])
    /\ \A t \in DOMAIN configs : PositiveFinite(configs[t].order_size)

\* Request w places its order in this step.
Places(w) == "trade" \notin DOMAIN frame[w] /\ "trade" \in DOMAIN frame'[w]

\* C13: nothing serializes the requests for one symbol: a request that has
\* passed its funds or profit check can place its order whatever the other
\* requests have done since, so two requests that both passed the check on the
\* same funds (or the same position) both place an order.
C13_NoSerialization ==
    \A w \in Workers :
      /\ pc[w] = "buy_place" => ENABLED (BuyPlace(w) /\ Places(w))
      /\ pc[w] = "sell_place" => ENABLED (SellPlace(w) /\ Places(w))

\* Two BUY requests for AAPL have both passed the funds check on funds of 1000
\* with order_size 1000, and neither has placed its order yet.
C13_Witness ==
    \A w \in {1, 2} :
      /\ pc[w] = "buy_place"
      /\ frame[w].ticker = "AAPL"
      /\ frame[w].cfg.order_size = Fin(H(1000))
      /\ frame[w].available = H(1000)

\* User u's session completes in this step: the bot replies that the
\* configuration is saved.
Saves(u) == reply'[u] # reply[u] /\ Msg(reply'[u]) = "Configuration saved"

\* The entry the completing step reports: the symbol, size and percentage of
\* the reply.
Saved(r) == [order_size |-> r.size, min_profit |-> r.percent]

\* C14: a lookup binds the entry the store holds at that moment; when a
\* completing session's write returns, the store holds for that symbol exactly
\* the values just written; and an entry changes in no other step. So a lookup
\* for X always sees the most recent completed write for X.
C14_ReadAfterWrite ==
    [][/\ \A w \in Workers :
            (/\ pc[w] \in {"buy_lookup", "sell_lookup"}
             /\ pc'[w] # pc[w]
             /\ frame[w].ticker \in DOMAIN configs)
            => frame'[w].cfg = configs[frame[w].ticker]
       /\ \A u \in Users :
            Saves(u) =>
              /\ reply'[u].ticker \in DOMAIN configs'
              /\ configs'[reply'[u].ticker] = Saved(reply'[u])
       /\ \A t \in DOMAIN configs :
            (t \in DOMAIN configs' /\ configs'[t] # configs[t])
            => \E u \in Users : Saves(u) /\ reply'[u].ticker = t]_vars

\* A buy decision has looked up AAPL after a session saved it and works on
\* exactly the saved values.
C14_Witness ==
    \E w \in Workers, u \in Users :
      /\ pc[w] = "buy_funds"
      /\ frame[w].ticker = "AAPL"
      /\ Msg(reply[u]) = "Configuration saved"
      /\ reply[u].ticker = "AAPL"
      /\ frame[w].cfg = Saved(reply[u])
      /\ frame[w].cfg = configs["AAPL"]

\* C15: a completing write adds or replaces its own symbol's entry with
\* exactly the values written and leaves every other entry present and
\* unchanged, however the two users' sessions and the lookups interleave; no
\* other step changes the store.
C15_WritesKeepOtherEntries ==
    [][/\ \A u \in Users :
            Saves(u) =>
              /\ DOMAIN configs' = DOMAIN configs \cup {reply'[u].ticker}
              /\ configs'[reply'[u].ticker] = Saved(reply'[u])
              /\ \A x \in DOMAIN configs \ {reply'[u].ticker} : configs'[x] = configs[x]
       /\ configs' # configs => \E u \in Users : Saves(u)]_vars

\* Both users have completed a session, with different order sizes, a lookup
\* has read the store, and both entries are present with the values written.
C15_Witness ==
    /\ DOMAIN configs = {"AAPL", "MSFT"}
    /\ \A u \in Users : Msg(reply[u]) = "Configuration saved"
    /\ reply[1].ticker = "AAPL" /\ configs["AAPL"] = Saved(reply[1])
    /\ reply[2].ticker = "MSFT" /\ configs["MSFT"] = Saved(reply[2])
    /\ reply[1].size # reply[2].size
    /\ \E w \in Workers : Has(w, "cfg") /\ frame[w].cfg = configs[frame[w].ticker]

\* Some request state changes in this step.
SignalStep ==
    pc' # pc \/ frame' # frame \/ calls' # calls \/ resp' # resp \/ exc' # exc

\* C16: no step removes an entry of the store, a step of a request leaves the
\* store as it is, and the store changes only in a step that completes a
\* configuration session.
C16_StoreOnlyGrowsBySessions ==
    [][/\ DOMAIN configs \subseteq DOMAIN configs'
       /\ SignalStep => configs' = configs
       /\ configs' # configs =>
            \E u \in Users : conv[u] = PROFIT_PCT /\ conv'[u] = END /\ Saves(u)]_vars

\* A SELL signal was processed to the point of placing its order and the
\* entry it looked up is still in the store.
C16_Witness ==
    \E w \in Workers :
      /\ pc[w] = "sent"
      /\ Has(w, "trade")
      /\ frame[w].action = "SELL"
      /\ frame[w].ticker \in DOMAIN configs
      /\ configs[frame[w].ticker] = frame[w].cfg

\* The texts float() accepts, among those a user can send.
IsNumber(text) ==
    Strip(text) \in {"1000", "100", "-2.5", "0", "2.5", "3", "nan", "inf"}

\* User u is told in this step that the input was no number.
Rejects(u, msg) == reply'[u] # reply[u] /\ Msg(reply'[u]) = msg

\* C17: a step that rejects the input as no number leaves the session in the
\* same step and changes neither user_data nor the store; the order-size step
\* is left for the profit step, and the profit step for the saved entry, only
\* with the value of a text that parses.
C17_InvalidInputKeepsStep ==
    [][\A u \in Users :
         /\ Rejects(u, "Invalid number") =>
              /\ conv[u] = ORDER_SIZE /\ conv'[u] = ORDER_SIZE
              /\ user_data' = user_data /\ configs' = configs
         /\ Rejects(u, "Invalid percentage") =>
              /\ conv[u] = PROFIT_PCT /\ conv'[u] = PROFIT_PCT
              /\ user_data' = user_data /\ configs' = configs
         /\ (conv[u] = ORDER_SIZE /\ conv'[u] = PROFIT_PCT) =>
              \E text \in SizeTexts :
                /\ IsNumber(text)
                /\ user_data'[u]["order_size"] = ParseFloat(Strip(text))
         /\ (conv[u] = PROFIT_PCT /\ Saves(u)) =>
              \E text \in ProfitTexts :
                /\ IsNumber(text)
                /\ reply'[u].percent = ParseFloat(Strip(text))]_vars

\* A text that is no number was rejected at the profit step: the session is
\* still there, with its symbol and order size, and the store is empty.
C17_Witness ==
    \E u \in Users :
      /\ Msg(reply[u]) = "Invalid percentage"
      /\ conv[u] = PROFIT_PCT
      /\ {"ticker", "order_size"} \subseteq DOMAIN user_data[u]
      /\ configs = << >>

\* C18: a buy decision binds the entry it looks up and keeps it to its end,
\* whatever is written to the store meanwhile: the funds check and the
\* quantity both use the order_size of that entry.
C18_DecisionKeepsItsEntry ==
    [][\A w \in Workers :
         /\ (/\ pc[w] = "buy_lookup"
             /\ pc'[w] = "buy_funds")
            => frame'[w].cfg = configs[frame[w].ticker]
         /\ pc[w] \in {"buy_funds", "buy_quote", "buy_place"} =>
              /\ frame'[w].cfg = frame[w].cfg
              /\ pc'[w] \in {"buy_quote", "buy_place"}
                   => ~FinLess(frame'[w].available, frame[w].cfg.order_size)
              /\ ("qty" \in DOMAIN frame'[w] /\ frame[w].cfg.order_size.k = "fin")
                   => frame'[w].qty
                        = TruncDiv(frame[w].cfg.order_size.v, frame'[w].price)]_vars

\* A buy decision is about to place its order, computed from order_size 1000,
\* while the store already holds another order_size for the symbol.
C18_Witness ==
    \E w \in Workers :
      /\ pc[w] = "buy_place"
      /\ frame[w].cfg.order_size = Fin(H(1000))
      /\ frame[w].ticker \in DOMAIN configs
      /\ configs[frame[w].ticker].order_size # Fin(H(1000))
      /\ frame[w].qty = TruncDiv(H(1000), frame[w].price)

\* How many times a broker call was made in a request.
Times(cs, name) == Cardinality({i \in DOMAIN cs : cs[i] = name})

\* C19: a request calls placeOrder at most once and makes no broker call
\* twice, and an order it placed has the request's action as its side and the
\* request's symbol as its symbol.
C19_OneOrderOfTheSignalsSide ==
    \A w \in Workers :
      InFlight(w) =>
        /\ \A i \in DOMAIN calls[w] : Times(calls[w], calls[w][i]) = 1
        /\ Has(w, "trade") =>
             /\ Times(calls[w], "placeOrder") = 1
             /\ frame[w].trade.action = frame[w].action
             /\ frame[w].trade.symbol = frame[w].ticker
             /\ frame[w].action \in {"BUY", "SELL"}

\* A SELL signal for AAPL ended with one SELL order for AAPL.
C19_Witness ==
    \E w \in Workers :
      /\ pc[w] = "sent"
      /\ frame[w].action = "SELL"
      /\ frame[w].ticker = "AAPL"
      /\ Has(w, "trade")
      /\ frame[w].trade.action = "SELL"
      /\ frame[w].trade.symbol = "AAPL"
      /\ calls[w] = <<"positions", "qualifyContracts", "placeOrder">>

====
